---- MODULE Spec2Model ----
(***************************************************************************)
(* The feed/entry store of db.py (SQLite through Python's sqlite3) and the *)
(* refresh routine RSSReaderGUI.fetch_and_show of main.py.                 *)
(*                                                                         *)
(* The durable database is the triple feeds / entries / seq.  Every store  *)
(* function of db.py except remove_feed is one statement followed by a     *)
(* commit and is one action.  remove_feed runs two DELETE statements in    *)
(* one implicit transaction; it is modelled statement by statement, with   *)
(* conn holding the uncommitted view of its connection, so that a crash or *)
(* an exception between the statements is a step of the model.             *)
(* The program is single threaded: while remove_feed is inside its         *)
(* transaction (pc # "idle") no other operation runs.                      *)
(*                                                                         *)
(* The list fetch_and_show displays is the result of get_unread_entries on *)
(* the state the ingestion leaves; it is the operator GetUnreadEntries     *)
(* evaluated in the state after the action.                                *)
(***************************************************************************)
EXTENDS Integers, Sequences, FiniteSets, TLC

VARIABLES
    feeds,      \* rows of table feeds: [id, url, title]
    seq,        \* sqlite_sequence row of feeds (AUTOINCREMENT high-water mark)
    entries,    \* rows of table entries: [id, feed_id, title, link, published, read]
    pc,         \* position inside remove_feed: idle, rm_entries, rm_feed, rm_commit
    conn,       \* uncommitted view of remove_feed's connection
    feed_id,    \* remove_feed: local feed_id (kept until the next operation)
    parsed,     \* history: what feedparser.parse returned, per url, in the last
                \* fetch_and_show; NotFetched once another operation than
                \* mark_entry_read has run since
    lastOp,     \* history: the operation that ran last
    runs,       \* history: fetch_and_show runs in succession with the same
                \* fetcher results (saturates at 2)
    resub,      \* history: how far the succession remove_feed(url),
                \* add_feed(url), fetch_and_show has come, with the fetcher
                \* results and the counter seq from before the removal
    \* audio_player.py: the AudioPlayer of the tkinter variant (gui.py)
    is_playing,     \* AudioPlayer.is_playing
    is_paused,      \* AudioPlayer.is_paused
    current_file,   \* AudioPlayer.current_file: a temp file name, 0 for None
    mixer,          \* pygame.mixer is initialised
    temp_files,     \* the files made by NamedTemporaryFile(delete=False)
                    \* that exist on disk
    created,        \* how many temp files have been made (names are unique)
    loaded_ok,      \* history: the files made by a load_url that returned True
    lastAudio       \* history: the AudioPlayer method that ran last

svars == <<feeds, seq, entries, pc, conn, feed_id, parsed, lastOp, runs, resub>>

avars == <<is_playing, is_paused, current_file, mixer, temp_files, created,
           loaded_ok, lastAudio>>

vars == <<svars, avars>>

(***************************************************************************)
(* Bounds and input sets                                                   *)
(***************************************************************************)
MaxFeedId == 3          \* cap on the AUTOINCREMENT counter
MaxTempFiles == 3       \* cap on the number of temp files made

Urls == {"u1", "u2"}

NoTitle == "None"       \* Python's None for the optional title argument

Date2021 == "Fri, 01 Jan 2021 00:00:00 +0000"
Date2023 == "Thu, 01 Jun 2023 00:00:00 +0000"
Garbage  == "yesterday"

\* Items as feedparser delivers them: dictionaries in which a key may be absent.
ItemA == [id |-> "g1", link |-> "L1", published |-> Date2021, title |-> "a"]
ItemB == [link |-> "L2", published |-> Date2023, title |-> "b"]
ItemC == [id |-> "", link |-> "L3", title |-> "c"]
ItemD == [id |-> "g4", title |-> "d"]
ItemE == [id |-> "g1", link |-> "L9", published |-> Garbage, title |-> "e"]

\* Results of feedparser.parse.  It reports a feed it cannot fetch or parse
\* with bozo set and an empty entries list; it does not raise.
Failure == [bozo |-> TRUE,  entries |-> << >>]
News    == [bozo |-> FALSE, entries |-> <<ItemA, ItemB, ItemC>>]
Mirror  == [bozo |-> FALSE, entries |-> <<ItemE>>]
Broken  == [bozo |-> FALSE, entries |-> <<ItemD, ItemB>>]

Contents == {Failure, News, Mirror, Broken}

NotFetched == [u \in Urls |-> Failure]

(***************************************************************************)
(* main.py: fetch_and_show, the per-item computations                      *)
(***************************************************************************)
\* entry.get(key, default) of a FeedParserDict
Get(entry, key, default) == IF key \in DOMAIN entry THEN entry[key] ELSE default

\* entry.link raises AttributeError when the item has no link
HasLink(entry) == "link" \in DOMAIN entry

\* eid = entry.get("id") or (entry.link + entry.get("published", ""))
\* The right operand is evaluated only when the guid is missing or empty,
\* and raises when there is no link.
IdRaises(entry) == Get(entry, "id", "") = "" /\ ~HasLink(entry)

\* Variant: the fallback id leaves out the published string
EntryIdLinkOnly(entry) ==
    IF Get(entry, "id", "") # "" THEN entry["id"] ELSE entry["link"]

\* eid when line 136 does not raise
EntryId(entry) ==
    IF Get(entry, "id", "") # "" THEN entry["id"]
    ELSE entry["link"] \o Get(entry, "published", "")

\* parsedate_to_datetime(pub_raw), naive values taken as UTC, int(dt.timestamp());
\* any exception gives 0.
Epoch(pub_raw) ==
    CASE pub_raw = Date2021 -> 1609459200
      [] pub_raw = Date2023 -> 1685577600
      [] OTHER -> 0

(***************************************************************************)
(* db.py: the statements                                                   *)
(***************************************************************************)
\* sqlite3.connect(DB_PATH) issues no PRAGMA foreign_keys = ON, so the clause
\* REFERENCES feeds(id) of the schema is parsed and not enforced.
ForeignKeysEnforced == FALSE

\* Variant: the insert without the UNIQUE conflict check
InsertFeedAlways(fs, s, url, title) ==
    fs \cup {[id |-> s + 1, url |-> url,
              title |-> IF title = NoTitle \/ title = "" THEN url ELSE title]}

\* INSERT OR IGNORE INTO feeds (url, title) VALUES (url, title or url)
InsertFeed(fs, s, url, title) ==
    IF \E f \in fs : f.url = url THEN fs
    ELSE fs \cup {[id |-> s + 1, url |-> url,
                   title |-> IF title = NoTitle \/ title = "" THEN url ELSE title]}

\* Variant: the schema's default for read is 1
NewEntryRead(entry_id, fid, title, link, published) ==
    [id |-> entry_id, feed_id |-> fid, title |-> title, link |-> link,
     published |-> published, read |-> TRUE]

\* INSERT OR IGNORE INTO entries (id, feed_id, title, link, published)
\* published has TEXT affinity; the value kept here is the number written.
NewEntry(entry_id, fid, title, link, published) ==
    [id |-> entry_id, feed_id |-> fid, title |-> title, link |-> link,
     published |-> published, read |-> FALSE]

\* Variant: INSERT OR REPLACE, which overwrites the row and its read flag
InsertEntryReplace(es, entry_id, fid, title, link, published) ==
    {e \in es : e.id # entry_id}
        \cup {NewEntry(entry_id, fid, title, link, published)}

\* The insert is dropped when a row with this id exists (PRIMARY KEY)
InsertEntry(es, entry_id, fid, title, link, published) ==
    IF \E e \in es : e.id = entry_id THEN es
    ELSE es \cup {NewEntry(entry_id, fid, title, link, published)}

\* add_entry raises (and stores nothing) only if the foreign key is enforced
AddEntryRejected(fs, fid) ==
    ForeignKeysEnforced /\ ~\E f \in fs : f.id = fid

\* Variant: the UPDATE without its WHERE clause
UpdateReadAll(es, entry_id) == {[e EXCEPT !.read = TRUE] : e \in es}

\* Variant: the update matches no row
UpdateReadNothing(es, entry_id) == es

\* UPDATE entries SET read = 1 WHERE id = entry_id
UpdateRead(es, entry_id) ==
    {IF e.id = entry_id THEN [e EXCEPT !.read = TRUE] ELSE e : e \in es}

\* Variant: the feed's entries are not deleted
DeleteEntriesNone(es, fid) == es

\* DELETE FROM entries WHERE feed_id = fid
DeleteEntries(es, fid) == {e \in es : e.feed_id # fid}

\* DELETE FROM feeds WHERE id = fid
DeleteFeed(fs, fid) == {f \in fs : f.id # fid}

\* Variant: a connection in autocommit mode, every statement durable at once
AutoCommit(durable, working) == working

\* What is durable after a DML statement that has not been committed:
\* sqlite3 opens a transaction before the first DELETE, so nothing of it is.
AfterStatement(durable, working) == durable

\* SELECT * FROM feeds: a scan of the table in rowid order
RECURSIVE FeedsInOrder(_)
FeedsInOrder(fs) ==
    IF fs = {} THEN << >>
    ELSE LET f == CHOOSE g \in fs : \A h \in fs : g.id <= h.id
         IN  <<f>> \o FeedsInOrder(fs \ {f})

get_feeds == FeedsInOrder(feeds)

(***************************************************************************)
(* db.py: get_unread_entries                                               *)
(***************************************************************************)
\* SQLite's datetime(e.published) on the stored text: a number below
\* 5373484.5 is read as a Julian day number and gives a date; any larger
\* number (every epoch after 4 March 1970) is out of range and gives NULL.
DateTimeSql(published) ==
    IF published >= 0 /\ published <= 5373484
    THEN [null |-> FALSE, jd |-> published]
    ELSE [null |-> TRUE,  jd |-> 0]

\* k1 sorts strictly before k2 under ORDER BY ... DESC (NULL is the smallest
\* value, so it comes last)
SortsBefore(k1, k2) ==
    \/ ~k1.null /\ k2.null
    \/ ~k1.null /\ ~k2.null /\ k1.jd > k2.jd

\* FROM entries e JOIN feeds f ON e.feed_id = f.id WHERE e.read = 0
UnreadRows(fs, es) ==
    {[id |-> e.id, title |-> e.title, link |-> e.link,
      published |-> e.published, feed_url |-> f.url] :
        <<e, f>> \in {p \in es \X fs : p[1].feed_id = p[2].id /\ ~p[1].read}}

\* The sequences the query may return: every arrangement of the rows that
\* respects ORDER BY datetime(e.published) DESC; rows with equal keys come
\* in an order SQL leaves open.
GetUnreadEntries(fs, es) ==
    LET rows == UnreadRows(fs, es)
        n    == Cardinality(rows)
    IN  {s \in [1..n -> rows] :
            /\ \A i, j \in 1..n : i # j => s[i] # s[j]
            /\ \A i, j \in 1..n :
                 i < j => ~SortsBefore(DateTimeSql(s[j].published),
                                       DateTimeSql(s[i].published))}

(***************************************************************************)
(* main.py: fetch_and_show, the ingestion loops                            *)
(***************************************************************************)
\* An item without link raises AttributeError: at line 136 when it has no
\* guid either, at line 146 (entry.link as an argument of add_entry) otherwise.
ItemRaises(entry) == IdRaises(entry) \/ ~HasLink(entry)

\* for entry in parsed.entries: ... add_entry(eid, feed["id"], title, link, epoch)
RECURSIVE IngestItems(_, _, _, _)
IngestItems(es, fs, fid, items) ==
    IF items = << >> THEN [entries |-> es, raised |-> FALSE]
    ELSE LET entry == Head(items)
         IN  IF ItemRaises(entry) \/ AddEntryRejected(fs, fid)
             THEN [entries |-> es, raised |-> TRUE]
             ELSE IngestItems(
                      InsertEntry(es, EntryId(entry), fid,
                                  Get(entry, "title", ""), entry["link"],
                                  Epoch(Get(entry, "published", ""))),
                      fs, fid, Tail(items))

\* for feed in get_feeds(): parsed = feedparser.parse(feed["url"]); ...
\* There is no try/except around the loops: an exception ends them.
RECURSIVE IngestFeeds(_, _, _, _)
IngestFeeds(es, fs, feedSeq, result) ==
    IF feedSeq = << >> THEN [entries |-> es, raised |-> FALSE]
    ELSE LET r == IngestItems(es, fs, Head(feedSeq).id,
                              result[Head(feedSeq).url].entries)
         IN  IF r.raised THEN r
             ELSE IngestFeeds(r.entries, fs, Tail(feedSeq), result)

\* fetch_and_show ends in an exception before it reaches get_unread_entries
Raised(fs, result) == IngestFeeds({}, fs, FeedsInOrder(fs), result).raised

(***************************************************************************)
(* Initial state: a new database file after init_db and the constructor's  *)
(* fetch_and_show over no feeds                                            *)
(***************************************************************************)
NoConn == [feeds |-> {}, entries |-> {}]

\* AudioPlayer.__init__
AudioInit ==
    /\ is_playing = FALSE
    /\ is_paused = FALSE
    /\ current_file = 0
    /\ mixer = TRUE
    /\ temp_files = {}
    /\ created = 0
    /\ loaded_ok = {}
    /\ lastAudio = "init"

NoResub == [stage |-> "none", url |-> "", result |-> NotFetched, seq |-> 0]

Init ==
    /\ feeds = {}
    /\ seq = 0
    /\ entries = {}
    /\ pc = "idle"
    /\ conn = NoConn
    /\ feed_id = 0
    /\ parsed = NotFetched
    /\ lastOp = "init_db"
    /\ runs = 0
    /\ resub = NoResub
    /\ AudioInit

Idle == pc = "idle"

NoRemove == /\ pc' = "idle" /\ conn' = NoConn /\ feed_id' = 0

Breaks == /\ runs' = 0 /\ parsed' = NotFetched

(***************************************************************************)
(* Actions                                                                 *)
(***************************************************************************)
\* init_db: CREATE TABLE IF NOT EXISTS on tables that exist changes nothing
InitDb ==
    /\ Idle
    /\ UNCHANGED vars

\* add_feed(url, title).  The rowid chosen for the row is recorded in
\* sqlite_sequence even when the UNIQUE conflict makes SQLite drop the row.
AddFeed(url, title) ==
    /\ Idle
    /\ seq < MaxFeedId
    /\ feeds' = InsertFeed(feeds, seq, url, title)
    /\ seq' = seq + 1
    /\ lastOp' = "add_feed"
    /\ resub' = IF resub.stage = "removed" /\ resub.url = url
                THEN [resub EXCEPT !.stage = "added"] ELSE NoResub
    /\ NoRemove /\ Breaks
    /\ UNCHANGED <<entries, avars>>

\* remove_feed(url): SELECT id FROM feeds WHERE url = ?; return if no row
RemoveFeedSelect(url) ==
    /\ Idle
    /\ Breaks
    /\ IF \E f \in feeds : f.url = url
       THEN /\ feed_id' = (CHOOSE f \in feeds : f.url = url).id
            /\ pc' = "rm_entries"
            /\ conn' = [feeds |-> feeds, entries |-> entries]
            /\ lastOp' = "remove_feed_select"
            /\ resub' = IF runs >= 1
                        THEN [stage |-> "removing", url |-> url,
                              result |-> parsed, seq |-> seq]
                        ELSE NoResub
       ELSE /\ NoRemove
            /\ lastOp' = "remove_feed_absent"
            /\ resub' = NoResub
    /\ UNCHANGED <<feeds, seq, entries, avars>>

\* conn.execute("DELETE FROM entries WHERE feed_id = ?")
RemoveFeedDeleteEntries ==
    /\ pc = "rm_entries"
    /\ conn' = [conn EXCEPT !.entries = DeleteEntries(conn.entries, feed_id)]
    /\ feeds' = AfterStatement(feeds, conn'.feeds)
    /\ entries' = AfterStatement(entries, conn'.entries)
    /\ pc' = "rm_feed"
    /\ UNCHANGED <<seq, feed_id, parsed, lastOp, runs, resub, avars>>

\* conn.execute("DELETE FROM feeds WHERE id = ?")
RemoveFeedDeleteFeed ==
    /\ pc = "rm_feed"
    /\ conn' = [conn EXCEPT !.feeds = DeleteFeed(conn.feeds, feed_id)]
    /\ feeds' = AfterStatement(feeds, conn'.feeds)
    /\ entries' = AfterStatement(entries, conn'.entries)
    /\ pc' = "rm_commit"
    /\ UNCHANGED <<seq, feed_id, parsed, lastOp, runs, resub, avars>>

\* conn.commit()
RemoveFeedCommit ==
    /\ pc = "rm_commit"
    /\ feeds' = conn.feeds
    /\ entries' = conn.entries
    /\ lastOp' = "remove_feed"
    /\ resub' = IF resub.stage = "removing"
                THEN [resub EXCEPT !.stage = "removed"] ELSE NoResub
    /\ pc' = "idle"
    /\ conn' = NoConn
    /\ UNCHANGED <<seq, feed_id, parsed, runs, avars>>

\* The process dies, or a statement raises, inside remove_feed: the open
\* transaction is rolled back (by the with block, or by SQLite's journal
\* when the file is next opened).
RemoveFeedCrash ==
    /\ pc # "idle"
    /\ lastOp' = "crash_" \o pc
    /\ resub' = NoResub
    /\ pc' = "idle"
    /\ conn' = NoConn
    /\ UNCHANGED <<feeds, seq, entries, feed_id, parsed, runs, avars>>

\* add_entry(entry_id, feed_id, title, link, published)
AddEntry(entry_id, fid, title, link, published) ==
    /\ Idle
    /\ entries' = IF AddEntryRejected(feeds, fid) THEN entries
                  ELSE InsertEntry(entries, entry_id, fid, title, link, published)
    /\ lastOp' = "add_entry"
    /\ resub' = NoResub
    /\ NoRemove /\ Breaks
    /\ UNCHANGED <<feeds, seq, avars>>

\* mark_entry_read(entry_id)
MarkEntryRead(entry_id) ==
    /\ Idle
    /\ entries' = UpdateRead(entries, entry_id)
    /\ lastOp' = "mark_entry_read"
    /\ resub' = NoResub
    /\ NoRemove
    /\ UNCHANGED <<feeds, seq, parsed, runs, avars>>

\* fetch_and_show, with result[url] what feedparser.parse(url) returns:
\* ingest every feed, then (unless an exception ended the loops) query the
\* unread rows.
FetchAndShow(result) ==
    /\ Idle
    /\ entries' = IngestFeeds(entries, feeds, get_feeds, result).entries
    /\ parsed' = result
    /\ runs' = IF runs >= 1 /\ parsed = result THEN 2 ELSE 1
    /\ lastOp' = "fetch_and_show"
    /\ resub' = IF resub.stage = "added" /\ resub.result = result
                THEN [resub EXCEPT !.stage = "refreshed"] ELSE NoResub
    /\ NoRemove
    /\ UNCHANGED <<feeds, seq, avars>>

\* Arguments of the store calls
Titles == {NoTitle, "T"}
MarkIds == {"g1", "zz"}
DirectFeedIds == {1, 99}

Next ==
    \/ InitDb
    \/ \E url \in Urls, title \in Titles : AddFeed(url, title)
    \/ \E url \in Urls : RemoveFeedSelect(url)
    \/ RemoveFeedDeleteEntries
    \/ RemoveFeedDeleteFeed
    \/ RemoveFeedCommit
    \/ RemoveFeedCrash
    \/ \E fid \in DirectFeedIds : AddEntry("x", fid, "t", "Lx", 0)
    \/ \E entry_id \in MarkIds : MarkEntryRead(entry_id)
    \/ \E result \in [Urls -> Contents] : FetchAndShow(result)

Spec == Init /\ [][Next]_vars

(***************************************************************************)
(* audio_player.py: AudioPlayer.  Its methods are the actions of SpecAudio; *)
(* the store takes no step there.                                          *)
(***************************************************************************)
\* pygame.mixer.music has a file loaded: some load reached the end of load_url
MusicLoaded == loaded_ok # {}

\* load_url(url).  outcome says how far it gets before an exception, which
\* the method catches (return False):
\*   "get"      requests.get or raise_for_status raises: no temp file is made
\*   "download" iter_content raises after NamedTemporaryFile made the file
\*   "mixer"    pygame.mixer.music.load raises, after current_file was set
\*   "ok"       the method returns True
\* Nothing deletes the file current_file named before.
LoadUrl(outcome) ==
    /\ created < MaxTempFiles \/ outcome = "get"
    /\ outcome = "ok" => mixer
    /\ IF outcome = "get"
       THEN UNCHANGED <<temp_files, created, current_file, loaded_ok>>
       ELSE /\ created' = created + 1
            /\ temp_files' = temp_files \cup {created + 1}
            /\ current_file' = IF outcome = "download" THEN current_file
                               ELSE created + 1
            /\ loaded_ok' = IF outcome = "ok" THEN loaded_ok \cup {created + 1}
                            ELSE loaded_ok
    /\ lastAudio' = "load_url_" \o outcome
    /\ UNCHANGED <<is_playing, is_paused, mixer, svars>>

\* play(): return if there is no current_file; unpause when paused, else
\* pygame.mixer.music.play(), which raises when no music is loaded
Play ==
    /\ mixer
    /\ IF current_file = 0 \/ (~is_paused /\ ~MusicLoaded)
       THEN UNCHANGED <<is_playing, is_paused>>
       ELSE /\ is_paused' = FALSE
            /\ is_playing' = TRUE
    /\ lastAudio' = "play"
    /\ UNCHANGED <<current_file, mixer, temp_files, created, loaded_ok, svars>>

\* pause()
Pause ==
    /\ mixer
    /\ IF is_playing
       THEN /\ is_paused' = TRUE
            /\ is_playing' = FALSE
       ELSE UNCHANGED <<is_playing, is_paused>>
    /\ lastAudio' = "pause"
    /\ UNCHANGED <<current_file, mixer, temp_files, created, loaded_ok, svars>>

\* if self.current_file and os.path.exists(...): try os.unlink except OSError.
\* unlinked is whether os.unlink succeeds.
StopFiles(files, file, unlinked) ==
    IF file # 0 /\ file \in files /\ unlinked THEN files \ {file} ELSE files

\* stop(), with the outcome of os.unlink: it can raise OSError only for a
\* file the mixer still has loaded ("File might be in use")
StopBody(unlinked) ==
    /\ unlinked \/ current_file \in loaded_ok
    /\ is_playing' = FALSE
    /\ is_paused' = FALSE
    /\ temp_files' = StopFiles(temp_files, current_file, unlinked)
    /\ current_file' = 0
    /\ UNCHANGED <<created, loaded_ok, svars>>

Stop(unlinked) ==
    /\ mixer
    /\ StopBody(unlinked)
    /\ lastAudio' = "stop"
    /\ UNCHANGED mixer

\* cleanup(): stop(), then pygame.mixer.quit()
Cleanup(unlinked) ==
    /\ mixer
    /\ StopBody(unlinked)
    /\ mixer' = FALSE
    /\ lastAudio' = "cleanup"

NextAudio ==
    \/ \E outcome \in {"get", "download", "mixer", "ok"} : LoadUrl(outcome)
    \/ Play
    \/ Pause
    \/ \E unlinked \in BOOLEAN : Stop(unlinked)
    \/ \E unlinked \in BOOLEAN : Cleanup(unlinked)

SpecAudio == Init /\ [][NextAudio]_vars

(***************************************************************************)
(* Properties                                                              *)
(***************************************************************************)
\* The step is a fetch_and_show; parsed' holds the fetcher result it ran with
IsFetch == lastOp' = "fetch_and_show" /\ FetchAndShow(parsed')

\* An entry row without its read flag
Row(e) == [id |-> e.id, feed_id |-> e.feed_id, title |-> e.title,
           link |-> e.link, published |-> e.published]

Rows(es) == {Row(e) : e \in es}

\* C1 -- Refresh idempotence: a fetch_and_show that follows a fetch_and_show
\* with the same fetcher result for every feed (only mark_entry_read in
\* between) adds and removes no entry row, leaves every entry id occurring
\* once, and leaves every entry that was read before it read.
C1_RefreshIdempotent ==
    [][(IsFetch /\ runs >= 1 /\ parsed' = parsed) =>
          /\ Rows(entries') = Rows(entries)
          /\ Cardinality({e.id : e \in entries'}) = Cardinality(entries')
          /\ \A e \in entries : e.read => e \in entries']_vars

C1_Witness ==
    /\ lastOp = "fetch_and_show"
    /\ runs = 2
    /\ Cardinality(entries) >= 3
    /\ \E e \in entries : e.read
    /\ \E e \in entries : ~e.read

\* C2 -- addFeed idempotence: the feeds table never holds two rows with one
\* url, and add_feed(url) for a url that has a row leaves the feeds table and
\* the entries table as they were.
C2_AddFeedIdempotent ==
    [][/\ \A f, g \in feeds' : f.url = g.url => f = g
       /\ \A url \in Urls, title \in Titles :
            (AddFeed(url, title) /\ \E f \in feeds : f.url = url) =>
                (feeds' = feeds /\ entries' = entries)]_vars

C2_Witness ==
    /\ lastOp = "add_feed"
    /\ feeds # {}
    /\ entries # {}
    /\ ~\E f \in feeds : f.id = seq

\* C3 -- Cascade integrity: when remove_feed(u) commits for a feed with id f,
\* no feed with url u and no entry with feed_id f is left, and every other
\* feed and every other entry is there unchanged.
C3_CascadeIntegrity ==
    [][RemoveFeedCommit =>
          /\ \E f \in feeds : f.id = feed_id
          /\ \A f \in feeds :
                f.id = feed_id => ~\E g \in feeds' : g.url = f.url
          /\ ~\E e \in entries' : e.feed_id = feed_id
          /\ feeds' = {f \in feeds : f.id # feed_id}
          /\ entries' = {e \in entries : e.feed_id # feed_id}]_vars

C3_Witness ==
    /\ lastOp = "remove_feed"
    /\ feed_id # 0
    /\ ~\E f \in feeds : f.id = feed_id
    /\ \E f \in feeds : \E e \in entries : e.feed_id = f.id
    /\ Cardinality(entries) >= 2

\* C4 -- Unread ordering: after a refresh, get_unread_entries returns the
\* unread entries by publication time descending, the entries without a
\* valid date (published = 0) after every dated entry.
C4_UnreadOrdering ==
    (lastOp = "fetch_and_show" /\ ~Raised(feeds, parsed)) =>
        \A s \in GetUnreadEntries(feeds, entries) :
            \A i, j \in 1..Len(s) :
                i < j => s[i].published >= s[j].published

\* C5 -- Read transition: once mark_entry_read(id) has run, id is in no
\* result of get_unread_entries; an entry that is read stays read, and out of
\* the unread rows after every refresh, as long as it exists; and
\* mark_entry_read on an entry that is read changes nothing in the store.
C5_ReadTransition ==
    [][/\ \A id \in MarkIds :
            MarkEntryRead(id) =>
                /\ \A s \in GetUnreadEntries(feeds', entries') :
                       \A i \in 1..Len(s) : s[i].id # id
                /\ (\E e \in entries : e.id = id /\ e.read) =>
                       (feeds' = feeds /\ entries' = entries /\ seq' = seq)
       /\ \A e \in entries :
            e.read => \A e2 \in entries' : e2.id = e.id => e2.read
       /\ IsFetch =>
            \A e \in entries :
                e.read => \A s \in GetUnreadEntries(feeds', entries') :
                              \A i \in 1..Len(s) : s[i].id # e.id]_vars

C5_Witness ==
    /\ lastOp = "fetch_and_show"
    /\ \E e \in entries : e.read /\ \E f \in feeds : f.id = e.feed_id
    /\ \E s \in GetUnreadEntries(feeds, entries) : Len(s) >= 2

\* C6 -- Partial-failure isolation: a refresh over several feeds never ends
\* in an exception before the unread query, and after it every item of every
\* feed whose items are all well formed is in the store.
C6_PartialFailureIsolation ==
    (lastOp = "fetch_and_show" /\ Cardinality(feeds) >= 2) =>
        /\ ~Raised(feeds, parsed)
        /\ \A f \in feeds :
             LET items == parsed[f.url].entries
             IN  (\A i \in 1..Len(items) : HasLink(items[i])) =>
                     \A i \in 1..Len(items) :
                         \E e \in entries : e.id = EntryId(items[i])

\* The id the claim gives an item: its guid when that is not empty, else its
\* link followed by its raw published string
ClaimedId(item) ==
    IF "id" \in DOMAIN item /\ item["id"] # "" THEN item["id"]
    ELSE item["link"] \o (IF "published" \in DOMAIN item
                          THEN item["published"] ELSE "")

\* C7 -- Fallback id derivation: every entry a refresh inserts carries the
\* claimed id of an item of its feed; a refresh that does not raise leaves
\* an entry under the claimed id of every item; and a second cycle over the
\* same results inserts no entry for an item without guid.
C7_FallbackId ==
    [][IsFetch =>
          /\ \A e \in entries' \ entries :
                \E f \in feeds :
                    \E i \in 1..Len(parsed'[f.url].entries) :
                        LET item == parsed'[f.url].entries[i]
                        IN  /\ HasLink(item)
                            /\ e.id = ClaimedId(item)
                            /\ e.feed_id = f.id
                            /\ e.link = item["link"]
          /\ ~Raised(feeds, parsed') =>
                \A f \in feeds :
                    \A i \in 1..Len(parsed'[f.url].entries) :
                        \E e \in entries' :
                            e.id = ClaimedId(parsed'[f.url].entries[i])
          /\ (runs >= 1 /\ parsed' = parsed) =>
                \A f \in feeds :
                    \A i \in 1..Len(parsed[f.url].entries) :
                        LET item == parsed[f.url].entries[i]
                        IN  (HasLink(item) /\ Get(item, "id", "") = "") =>
                                ~\E e \in entries' \ entries :
                                    e.id = ClaimedId(item)]_vars

C7_Witness ==
    /\ lastOp = "fetch_and_show"
    /\ runs = 2
    /\ \E e \in entries : e.id = "L2" \o Date2023
    /\ \E e \in entries : e.id = "L3"

\* C8 -- Integrity check on insert: every entry's feed_id is the id of a
\* feed in the feeds table.
C8_NoOrphanEntries ==
    \A e \in entries : \E f \in feeds : f.id = e.feed_id

\* C9 -- No silent merge across feeds: after a refresh in which two feeds
\* each delivered an item with the same computed id, each of the two items
\* has an entry attributed to its own feed.
C9_NoSilentMerge ==
    (lastOp = "fetch_and_show" /\ ~Raised(feeds, parsed)) =>
        \A f1, f2 \in feeds :
            \A i1 \in 1..Len(parsed[f1.url].entries) :
                \A i2 \in 1..Len(parsed[f2.url].entries) :
                    LET a == parsed[f1.url].entries[i1]
                        b == parsed[f2.url].entries[i2]
                    IN  (f1 # f2 /\ EntryId(a) = EntryId(b)) =>
                            /\ \E e \in entries :
                                   e.feed_id = f1.id /\ e.link = a["link"]
                            /\ \E e \in entries :
                                   e.feed_id = f2.id /\ e.link = b["link"]

\* C10 -- Atomic removal: every step inside remove_feed, a crash or a failed
\* statement included, leaves the durable tables as they were or with both
\* the feed and all its entries deleted, and never with an entry of the feed
\* left behind without the feed.
C10_AtomicRemoval ==
    [][pc # "idle" =>
          /\ \/ feeds' = feeds /\ entries' = entries
             \/ /\ feeds' = {f \in feeds : f.id # feed_id}
                /\ entries' = {e \in entries : e.feed_id # feed_id}
          /\ \A e \in entries' :
                e.feed_id = feed_id => \E f \in feeds' : f.id = feed_id
          /\ RemoveFeedCrash => (feeds' = feeds /\ entries' = entries)]_vars

C10_Witness ==
    /\ lastOp = "crash_rm_commit"
    /\ \E f \in feeds : f.id = feed_id
    /\ \E e \in entries : e.feed_id = feed_id

\* C11 -- Entry immutability: in every step an entry that stays keeps its
\* feed_id, title, link and published; its read flag changes only in a
\* mark_entry_read of its id; and it disappears only when remove_feed commits
\* for the feed its feed_id names.
C11_EntryImmutable ==
    [][\A e \in entries :
          /\ \A e2 \in entries' :
                e2.id = e.id =>
                    /\ Row(e2) = Row(e)
                    /\ e2.read # e.read => MarkEntryRead(e.id)
          /\ (~\E e2 \in entries' : e2.id = e.id) =>
                (RemoveFeedCommit /\ feed_id = e.feed_id)]_vars

\* A refresh has run in which a second feed delivered, with other field
\* values, the id of an entry the first feed owns
C11_Witness ==
    /\ lastOp = "fetch_and_show"
    /\ runs = 2
    /\ \E e \in entries :
          /\ e.id = "g1" /\ e.link = "L1" /\ e.read
          /\ \E f \in feeds : f.id # e.feed_id /\ parsed[f.url] = Mirror

\* C12 -- Read flag is monotonic: an entry that appears in a step has
\* read = FALSE, and an entry with read = TRUE has read = TRUE after every
\* step that leaves an entry under its id.
C12_ReadMonotonic ==
    [][/\ \A e2 \in entries' :
            (~\E e \in entries : e.id = e2.id) => ~e2.read
       /\ \A e \in entries :
            e.read => \A e2 \in entries' : e2.id = e.id => e2.read]_vars

C12_Witness ==
    /\ lastOp = "add_entry"
    /\ \E e \in entries : e.read
    /\ \E e \in entries : e.id = "x" /\ ~e.read
    /\ Cardinality(entries) >= 4

\* C13 -- NotFound is absorbed: remove_feed(url) for a url without feed
\* returns without opening its transaction, mark_entry_read(id) for an id
\* without entry completes, and both leave feeds and entries as they were.
C13_NotFoundAbsorbed ==
    [][/\ \A url \in Urls :
            (RemoveFeedSelect(url) /\ ~\E f \in feeds : f.url = url) =>
                (pc' = "idle" /\ feeds' = feeds /\ entries' = entries)
       /\ \A id \in MarkIds :
            (MarkEntryRead(id) /\ ~\E e \in entries : e.id = id) =>
                (feeds' = feeds /\ entries' = entries)]_vars

\* mark_entry_read ran last and no entry is read: its id had no entry
C13_Witness ==
    /\ lastOp = "mark_entry_read"
    /\ feeds # {}
    /\ Cardinality(entries) >= 2
    /\ \A e \in entries : ~e.read

\* C14 -- Read state does not survive unsubscribe/resubscribe: after
\* remove_feed(u), add_feed(u) and a fetch_and_show with the fetcher results
\* of the refresh before the removal, the feed's id is greater than every id
\* assigned before, and every item of the feed has an unread entry.
C14_ResubscribeUnread ==
    (lastOp = "fetch_and_show" /\ resub.stage = "refreshed") =>
        \A f \in feeds :
            f.url = resub.url =>
                /\ f.id > resub.seq
                /\ \A i \in 1..Len(parsed[f.url].entries) :
                      \E e \in entries :
                          /\ e.id = EntryId(parsed[f.url].entries[i])
                          /\ ~e.read

\* C15 -- AudioPlayer temp files do not leak: every temp file made by a
\* load_url that returned True is current_file or has been deleted, and after
\* stop() or cleanup() no temp file of the player exists and current_file is
\* None.
C15_NoTempFileLeak ==
    /\ \A file \in temp_files \cap loaded_ok : file = current_file
    /\ lastAudio \in {"stop", "cleanup"} =>
           (temp_files = {} /\ current_file = 0)

====
